---- MODULE Spec2Model ----
(***************************************************************************)
(* SecNex bin-api: the request Reflector (server/server.go) behind the     *)
(* logging / Sentry middleware (logger/http.go).                           *)
(*                                                                         *)
(* Byte strings are sequences of lexical tokens: a request body is a       *)
(* sequence of JSON tokens, a response body is the sequence of tokens the  *)
(* encoder writes.  encoding/json is modelled by what it does on these     *)
(* tokens: a syntax scan (checkValid), a decoder into Go values            *)
(* (nil, bool, float64, string, []interface{}, map[string]interface{})     *)
(* and an encoder that writes map keys in sorted order.                    *)
(***************************************************************************)
EXTENDS Integers, Sequences, FiniteSets, TLC

(***************************************************************************)
(* Bounds of the model.                                                    *)
(***************************************************************************)
MaxBodyLen == 2        \* every token sequence up to this length is a body
MaxHeaderLines == 2    \* header lines of a request
MaxQueryPairs == 3     \* key=value pairs of a raw query
MaxOps == 2            \* calls made by a foreign wrapped handler
MaxPathLen == 2        \* segments of a request path

(***************************************************************************)
(* Program constants.                                                      *)
(***************************************************************************)
StatusOK == 200
StatusInternalServerError == 500

(***************************************************************************)
(* Lexical tokens of a byte string.                                        *)
(***************************************************************************)
P(c) == [t |-> "punct", v |-> c]   \* one of { } [ ] , :
S(s) == [t |-> "str", v |-> s]     \* a quoted string literal
N(n) == [t |-> "num", v |-> n]     \* a number literal
L(l) == [t |-> "lit", v |-> l]     \* null, true, false
W(w) == [t |-> "ws", v |-> w]      \* insignificant whitespace
X(x) == [t |-> "text", v |-> x]    \* any other bytes

\* the tokens every short body is built from; commas, colons and the other
\* literals come with the longer documents
Tokens ==
    {P(c) : c \in {"{", "}", "[", "]"}}
        \cup {S("a"), N("1"), L("null"), W(" "), X("not-json")}

(***************************************************************************)
(* Go values held in an interface{}.                                       *)
(***************************************************************************)
GoNil == [k |-> "nil"]
GoBool(b) == [k |-> "bool", b |-> b]
GoFloat(f) == [k |-> "float64", f |-> f]
GoString(s) == [k |-> "string", s |-> s]
GoSlice(e) == [k |-> "slice", e |-> e]
GoMap(m) == [k |-> "map", m |-> m]
EmptyMap == GoMap(<<>>)

(***************************************************************************)
(* strconv.ParseFloat(s, 64) as json's convertNumber uses it: the float64  *)
(* is named by its shortest decimal form (what the encoder prints), and a  *)
(* literal beyond the float64 range is a range error.                      *)
(***************************************************************************)
ParseFloat(s) ==
    CASE s = "1" -> [f |-> "1", err |-> FALSE]
      [] s = "1.0" -> [f |-> "1", err |-> FALSE]
      [] s = "1e400" -> [f |-> "+Inf", err |-> TRUE]

(***************************************************************************)
(* json.Unmarshal(body, &bodyData) with bodyData an interface{}.           *)
(* Res(err, pos, v, saved): err is the syntax error ("" for none), pos the *)
(* index after the value, saved the decoder's saved conversion error.      *)
(***************************************************************************)
ErrEOF == "unexpected end of JSON input"
ErrChar == "invalid character"
ErrNumber == "json: cannot unmarshal number into Go value of type float64"

Res(err, pos, v, saved) == [err |-> err, pos |-> pos, v |-> v, saved |-> saved]

RECURSIVE skipWs(_, _)
skipWs(toks, i) ==
    IF i <= Len(toks) /\ toks[i].t = "ws" THEN skipWs(toks, i + 1) ELSE i

RECURSIVE value(_, _), array(_, _, _, _), object(_, _, _, _)
value(toks, i0) ==
    LET i == skipWs(toks, i0) IN
    IF i > Len(toks) THEN Res(ErrEOF, i, GoNil, FALSE)
    ELSE LET tk == toks[i] IN
         CASE tk.t = "str" -> Res("", i + 1, GoString(tk.v), FALSE)
           [] tk.t = "num" ->
                LET n == ParseFloat(tk.v) IN
                IF n.err THEN Res("", i + 1, GoNil, TRUE)
                ELSE Res("", i + 1, GoFloat(n.f), FALSE)
           [] tk = L("null") -> Res("", i + 1, GoNil, FALSE)
           [] tk = L("true") -> Res("", i + 1, GoBool(TRUE), FALSE)
           [] tk = L("false") -> Res("", i + 1, GoBool(FALSE), FALSE)
           [] tk = P("[") ->
                LET j == skipWs(toks, i + 1) IN
                IF j > Len(toks) THEN Res(ErrEOF, j, GoNil, FALSE)
                ELSE IF toks[j] = P("]") THEN Res("", j + 1, GoSlice(<<>>), FALSE)
                ELSE array(toks, j, <<>>, FALSE)
           [] tk = P("{") ->
                LET j == skipWs(toks, i + 1) IN
                IF j > Len(toks) THEN Res(ErrEOF, j, GoNil, FALSE)
                ELSE IF toks[j] = P("}") THEN Res("", j + 1, EmptyMap, FALSE)
                ELSE object(toks, j, <<>>, FALSE)
           [] OTHER -> Res(ErrChar, i, GoNil, FALSE)

\* the elements of an array from index i on; acc holds those decoded so far
array(toks, i, acc, saved) ==
    LET r == value(toks, i) IN
    IF r.err # "" THEN r
    ELSE LET j == skipWs(toks, r.pos)
             acc2 == Append(acc, r.v)
             saved2 == saved \/ r.saved
         IN  IF j > Len(toks) THEN Res(ErrEOF, j, GoNil, FALSE)
             ELSE IF toks[j] = P("]") THEN Res("", j + 1, GoSlice(acc2), saved2)
             ELSE IF toks[j] = P(",") THEN array(toks, j + 1, acc2, saved2)
             ELSE Res(ErrChar, j, GoNil, FALSE)

\* the members of an object from index i on; a repeated key overwrites
object(toks, i0, acc, saved) ==
    LET i == skipWs(toks, i0) IN
    IF i > Len(toks) THEN Res(ErrEOF, i, GoNil, FALSE)
    ELSE IF toks[i].t # "str" THEN Res(ErrChar, i, GoNil, FALSE)
    ELSE LET c == skipWs(toks, i + 1) IN
         IF c > Len(toks) THEN Res(ErrEOF, c, GoNil, FALSE)
         ELSE IF toks[c] # P(":") THEN Res(ErrChar, c, GoNil, FALSE)
         ELSE LET r == value(toks, c + 1) IN
              IF r.err # "" THEN r
              ELSE LET j == skipWs(toks, r.pos)
                       key == toks[i].v
                       acc2 == [x \in DOMAIN acc \cup {key} |->
                                   IF x = key THEN r.v ELSE acc[x]]
                       saved2 == saved \/ r.saved
                   IN  IF j > Len(toks) THEN Res(ErrEOF, j, GoNil, FALSE)
                       ELSE IF toks[j] = P("}")
                            THEN Res("", j + 1, GoMap(acc2), saved2)
                       ELSE IF toks[j] = P(",") THEN object(toks, j + 1, acc2, saved2)
                       ELSE Res(ErrChar, j, GoNil, FALSE)

\* the scanner's verdict on the whole input: "" when it is one JSON value
checkValid(toks) ==
    LET r == value(toks, 1) IN
    IF r.err # "" THEN r.err
    ELSE IF skipWs(toks, r.pos) <= Len(toks) THEN ErrChar
    ELSE ""

\* [err |-> error text or "", v |-> the decoded value]
Unmarshal(toks) ==
    LET r == value(toks, 1) IN
    IF checkValid(toks) # "" THEN [err |-> checkValid(toks), v |-> GoNil]
    ELSE IF r.saved THEN [err |-> ErrNumber, v |-> GoNil]
    ELSE [err |-> "", v |-> r.v]

(***************************************************************************)
(* json.NewEncoder(w).Encode(v): map keys are written in sorted (byte)     *)
(* order, and the document ends with a newline.                            *)
(***************************************************************************)
KeyOrder ==
    <<"Accept", "Content-Type", "User-Agent", "a", "b", "body", "headers", "params",
      "queries">>

sortedKeys(m) == SelectSeq(KeyOrder, LAMBDA x : x \in DOMAIN m)

RECURSIVE encode(_), encodeElems(_, _), encodeMembers(_, _, _)
encode(v) ==
    CASE v.k = "nil" -> <<L("null")>>
      [] v.k = "bool" -> IF v.b THEN <<L("true")>> ELSE <<L("false")>>
      [] v.k = "float64" -> <<N(v.f)>>
      [] v.k = "string" -> <<S(v.s)>>
      [] v.k = "slice" -> <<P("[")>> \o encodeElems(v.e, 1) \o <<P("]")>>
      [] v.k = "map" ->
           <<P("{")>> \o encodeMembers(v.m, sortedKeys(v.m), 1) \o <<P("}")>>

encodeElems(e, i) ==
    IF i > Len(e) THEN <<>>
    ELSE (IF i > 1 THEN <<P(",")>> ELSE <<>>) \o encode(e[i]) \o encodeElems(e, i + 1)

encodeMembers(m, keys, i) ==
    IF i > Len(keys) THEN <<>>
    ELSE (IF i > 1 THEN <<P(",")>> ELSE <<>>)
            \o <<S(keys[i]), P(":")>> \o encode(m[keys[i]])
            \o encodeMembers(m, keys, i + 1)

Encode(v) == encode(v) \o <<W("\n")>>

(***************************************************************************)
(* Requests.  A path is its sequence of segments: <<"x">> is /x, <<"">> is *)
(* /, <<"", "x">> is //x, <<"x", "">> is /x/.  A raw query is a sequence   *)
(* of key=value pairs, some of them malformed (a bad escape, a semicolon). *)
(* Header lines come in the order the client sent them.                    *)
(***************************************************************************)
RECURSIVE SeqsUpTo(_, _)
SeqsUpTo(A, n) ==
    IF n = 0 THEN {<<>>}
    ELSE LET shorter == SeqsUpTo(A, n - 1) IN
         shorter \cup {Append(q, a) : q \in shorter, a \in A}

Methods == {"GET", "POST", "CONNECT"}
Segments == {"", "x", "healthz", ".."}
Paths == SeqsUpTo(Segments, MaxPathLen) \ {<<>>}

Pair(k, v) == [key |-> k, val |-> v, ok |-> TRUE]
BadPair(k) == [key |-> k, val |-> "%zz", ok |-> FALSE]
QueryPairs == {Pair("a", "1"), Pair("a", "2"), Pair("b", "3"), BadPair("b")}
HeaderLineSet == {Pair("Accept", "1"), Pair("Accept", "2"), Pair("User-Agent", "3")}

ReadErrs == {"unexpected EOF"}
NoBody == [nil |-> TRUE, bytes |-> <<>>, readErr |-> ""]
Body(b) == [nil |-> FALSE, bytes |-> b, readErr |-> ""]
FailingBody(e) == [nil |-> FALSE, bytes |-> <<>>, readErr |-> e]

\* longer bodies than MaxBodyLen tokens, and every prefix of them
Documents ==
    { <<P("{"), S("a"), P(":"), N("1.0"), P("}")>>,
      <<P("{"), S("b"), P(":"), N("1"), P(","), S("a"), P(":"), P("["), L("true"),
        P("]"), P("}")>>,
      <<P("{"), S("a"), P(":"), N("1"), P(","), S("a"), P(":"), L("null"), P("}")>>,
      <<P("["), N("1"), P(","), S("a"), P("]")>>,
      <<P("["), N("1e400"), P("]")>>,
      <<N("1e400")>>,
      <<W(" "), P("{"), W(" "), P("}"), W(" ")>> }
Prefixes(q) == {SubSeq(q, 1, n) : n \in 0..Len(q)}
BodyTexts == SeqsUpTo(Tokens, MaxBodyLen) \cup UNION {Prefixes(d) : d \in Documents}
Bodies == {NoBody} \cup {Body(b) : b \in BodyTexts} \cup {FailingBody(e) : e \in ReadErrs}

Request(m, p, q, h, b) ==
    [method |-> m, path |-> p, query |-> q, header |-> h, body |-> b]

BadJSON == <<P("{"), X("not-json")>>
ContentTypes == {"application/json", "text/plain"}
PlainText == <<X("not-json")>>

Requests ==
    {Request("POST", <<"x">>, <<>>, <<>>, b) : b \in Bodies}
    \cup {Request("POST", <<"x">>, <<>>, <<Pair("Content-Type", ct)>>, b) :
            ct \in ContentTypes, b \in {Body(PlainText), Body(<<S("a")>>)}}
    \cup {Request("GET", <<"x">>, q, <<>>, Body(<<>>)) : q \in SeqsUpTo(QueryPairs, MaxQueryPairs)}
    \cup {Request("GET", <<"x">>, <<>>, h, Body(<<>>)) : h \in SeqsUpTo(HeaderLineSet, MaxHeaderLines)}
    \cup {Request(m, p, <<>>, <<>>, b) :
            m \in Methods, p \in Paths, b \in {Body(<<>>), Body(BadJSON)}}
    \cup {Request(m, p, <<Pair("a", "1")>>, <<>>, b) :
            m \in Methods, p \in {<<seg>> : seg \in Segments} \cup {<<"", "x">>},
            b \in {Body(<<>>), Body(<<S("a")>>), Body(BadJSON)}}

(***************************************************************************)
(* What the transport and net/url hand to the handler: values grouped by   *)
(* name in the order received.  url.ParseQuery skips a malformed pair and  *)
(* URL.Query() drops its error.                                            *)
(***************************************************************************)
RECURSIVE group(_, _)
group(pairs, acc) ==
    IF pairs = <<>> THEN acc
    ELSE LET p == Head(pairs)
             acc2 == IF ~p.ok THEN acc
                     ELSE [k \in DOMAIN acc \cup {p.key} |->
                             IF k = p.key
                             THEN (IF k \in DOMAIN acc THEN acc[k] ELSE <<>>) \o <<p.val>>
                             ELSE acc[k]]
         IN  group(Tail(pairs), acc2)

Header(r) == group(r.header, <<>>)
Query(r) == group(r.query, <<>>)

(***************************************************************************)
(* Calls a handler makes, in program order.                                *)
(***************************************************************************)
SetHeader(k, v) == [op |-> "Header.Set", key |-> k, value |-> v]
WriteHeader(code) == [op |-> "WriteHeader", code |-> code]
Write(b) == [op |-> "Write", bytes |-> b]
CallLogError(err, message, tags, extra) ==
    [op |-> "LogError", err |-> err, message |-> message, tags |-> tags, extra |-> extra]
\* a nil map[string]interface{}
NilMap == [nil |-> TRUE]

CallLogWarning(message, tags, extra) ==
    [op |-> "LogWarning", message |-> message, tags |-> tags, extra |-> extra]
CallLogInfo(message, tags, extra) ==
    [op |-> "LogInfo", message |-> message, tags |-> tags, extra |-> extra]
Panic(v) == [op |-> "panic", value |-> v]

\* http.Error(w, text, code): a plain-text line
httpError(text, code) ==
    << SetHeader("Content-Type", "text/plain; charset=utf-8"),
       SetHeader("X-Content-Type-Options", "nosniff"),
       WriteHeader(code),
       Write(<<X(text), W("\n")>>) >>

(***************************************************************************)
(* Server.HandleRequest                                                    *)
(***************************************************************************)
\* the body left null where the code stores an empty map
nullBody == GoNil

\* server.go 64 and 67: map[string]interface{}{}
emptyBody == EmptyMap

\* server.go 41-68: [err, logged, v]: the error text ("" for none), the
\* LogError call made for it, and response["body"]
reflectBody(r) ==
    IF r.body.nil THEN [err |-> "", v |-> emptyBody]
    ELSE IF r.body.readErr # ""
         THEN [err |-> r.body.readErr, v |-> GoNil,
               logged |-> CallLogError(r.body.readErr, "Failed to read request body",
                                       {<<"endpoint", "handle_request">>},
                                       [url |-> [path |-> r.path, query |-> r.query]])]
    ELSE IF Len(r.body.bytes) > 0
         THEN LET u == Unmarshal(r.body.bytes) IN
              IF u.err # ""
              THEN [err |-> u.err, v |-> GoNil,
                    logged |-> CallLogError(u.err, "Failed to parse JSON body",
                                            {<<"endpoint", "handle_request">>},
                                            [body |-> r.body.bytes])]
              ELSE [err |-> "", v |-> u.v]
    ELSE [err |-> "", v |-> emptyBody]

\* collapse without the single-value case
collapseNever(values) == GoSlice([i \in 1..Len(values) |-> GoString(values[i])])

\* server.go 73-77 and 84-88: one value is a bare string, otherwise the list
collapse(values) ==
    IF Len(values) = 1 THEN GoString(values[1])
    ELSE GoSlice([i \in 1..Len(values) |-> GoString(values[i])])

collect(m) == GoMap([key \in DOMAIN m |-> collapse(m[key])])

\* the response map without line 93
reflectedNoParams(r) ==
    GoMap([key \in {"body", "headers", "queries"} |->
            CASE key = "body" -> reflectBody(r).v
              [] key = "headers" -> collect(Header(r))
              [] key = "queries" -> collect(Query(r))])

\* the response map with the request's method put under params
reflectedWithMethod(r) ==
    GoMap([key \in {"body", "headers", "queries", "params"} |->
            CASE key = "body" -> reflectBody(r).v
              [] key = "headers" -> collect(Header(r))
              [] key = "queries" -> collect(Query(r))
              [] key = "params" -> GoMap([k \in {"a"} |-> GoString(r.method)])])

\* server.go 39, 62-67, 79, 90, 93: the response map
reflected(r) ==
    GoMap([key \in {"body", "headers", "queries", "params"} |->
            CASE key = "body" -> reflectBody(r).v
              [] key = "headers" -> collect(Header(r))
              [] key = "queries" -> collect(Query(r))
              [] key = "params" -> EmptyMap])

\* writeJSON with the status written before the header is set
writeJSONStatusFirst(response) ==
    << WriteHeader(StatusOK),
       SetHeader("Content-Type", "application/json"),
       Write(Encode(response)) >>

\* server.go 95-98
writeJSON(response) ==
    << SetHeader("Content-Type", "application/json"),
       WriteHeader(StatusOK),
       Write(Encode(response)) >>

\* HandleRequest without the return after http.Error
HandleRequestNoReturn(r) ==
    IF reflectBody(r).err # ""
    THEN <<reflectBody(r).logged>>
            \o httpError(reflectBody(r).err, StatusInternalServerError)
            \o writeJSON(reflected(r))
    ELSE writeJSON(reflected(r))

HandleRequest(r) ==
    IF reflectBody(r).err # ""
    THEN <<reflectBody(r).logged>>
            \o httpError(reflectBody(r).err, StatusInternalServerError)
    ELSE writeJSON(reflected(r))

(***************************************************************************)
(* Server.Healthz                                                          *)
(***************************************************************************)
Healthz(r) == <<WriteHeader(StatusOK), Write(<<X("OK")>>)>>

(***************************************************************************)
(* The router of Server.Start: http.NewServeMux with "/" and "/healthz".   *)
(* A request that is not CONNECT and whose path is not clean is answered   *)
(* by the mux's redirect to the clean path.                                *)
(***************************************************************************)
RECURSIVE cleanSegs(_, _)
cleanSegs(segs, acc) ==
    IF segs = <<>> THEN acc
    ELSE LET h == Head(segs) IN
         cleanSegs(Tail(segs),
                   IF h = "" \/ h = "." THEN acc
                   ELSE IF h = ".." THEN (IF acc = <<>> THEN acc
                                          ELSE SubSeq(acc, 1, Len(acc) - 1))
                   ELSE Append(acc, h))

cleanPath(p) ==
    LET np == cleanSegs(p, <<>>) IN
    IF np = <<>> THEN <<"">>
    ELSE IF p[Len(p)] = "" THEN Append(np, "")
    ELSE np

\* http.Redirect(w, r, url, http.StatusMovedPermanently)
Redirect(r) ==
    <<[op |-> "Header.Set", key |-> "Location", value |-> "clean path",
       url |-> [path |-> cleanPath(r.path), query |-> r.query]]>>
    \o (IF r.method = "GET"
        THEN <<SetHeader("Content-Type", "text/html; charset=utf-8")>> ELSE <<>>)
    \o <<WriteHeader(301)>>
    \o (IF r.method = "GET"
        THEN <<Write(<<X("<a href>Moved Permanently</a>."), W("\n"), W("\n")>>)>>
        ELSE <<>>)

\* a mux whose "/" pattern shadows "/healthz"
findHandlerCatchAll(r) ==
    IF r.method # "CONNECT" /\ cleanPath(r.path) # r.path THEN "Redirect"
    ELSE "HandleRequest"

\* which handler the mux picks
findHandler(r) ==
    IF r.method # "CONNECT" /\ cleanPath(r.path) # r.path THEN "Redirect"
    ELSE IF r.path = <<"healthz">> THEN "Healthz"
    ELSE "HandleRequest"

router(r) ==
    CASE findHandler(r) = "Redirect" -> Redirect(r)
      [] findHandler(r) = "Healthz" -> Healthz(r)
      [] findHandler(r) = "HandleRequest" -> HandleRequest(r)

(***************************************************************************)
(* Wrapped handlers.  LogHTTPRequest(next) wraps any http.Handler: the     *)
(* program passes its router; a foreign handler makes any calls and may    *)
(* panic.  An error value is the sequence of the fragments of its text,    *)
(* <<>> for nil.                                                           *)
(***************************************************************************)
PanicValues == {[kind |-> "error", text |-> <<"boom">>], [kind |-> "string", text |-> <<"oops">>]}
ForeignCalls ==
    {WriteHeader(404), WriteHeader(StatusInternalServerError), Write(<<X("h"), X("i")>>)}
ForeignHandlers ==
    SeqsUpTo(ForeignCalls, MaxOps)
        \cup {Append(ops, Panic(v)) : ops \in SeqsUpTo(ForeignCalls, MaxOps - 1), v \in PanicValues}

\* handlers that use the logger's helpers
HelperHandlers ==
    {<<CallLogWarning("High memory usage detected", {<<"service", "api">>}, NilMap)>>,
     <<CallLogInfo("Cache warmed", {<<"service", "api">>}, NilMap),
       WriteHeader(404)>>}

Router == [kind |-> "router"]
Foreign(ops) == [kind |-> "foreign", ops |-> ops]

\* the bytes the client's connection still takes: all of them, or only the
\* next n before the real writer reports an error (the client went away)
Unlimited == [limited |-> FALSE]
Room(n) == [limited |-> TRUE, left |-> n]
Rooms == {Room(0), Room(1)}

\* the triples (request, wrapped handler, connection) a connection may bring
Exchanges ==
    {[r |-> r, next |-> Router, room |-> Unlimited] : r \in Requests}
        \cup {[r |-> Request("GET", <<"x">>, <<>>, <<>>, Body(<<>>)), next |-> Foreign(ops),
               room |-> Unlimited] : ops \in ForeignHandlers}
        \cup {[r |-> Request("GET", <<"x">>, <<>>, <<Pair("User-Agent", "3")>>, Body(<<>>)),
               next |-> Foreign(ops), room |-> Unlimited] :
                ops \in ForeignHandlers \ SeqsUpTo(ForeignCalls, MaxOps)}
        \cup {[r |-> Request("GET", <<"x">>, <<>>, <<>>, Body(<<>>)), next |-> Foreign(ops),
               room |-> k] : ops \in SeqsUpTo(ForeignCalls, MaxOps), k \in Rooms}
        \cup {[r |-> Request("GET", <<"x">>, <<>>, <<>>, Body(<<>>)), next |-> Foreign(ops),
               room |-> Unlimited] : ops \in HelperHandlers}
        \cup {[r |-> Request("GET", p, <<>>, <<>>, NoBody), next |-> Router, room |-> k] :
                p \in {<<"x">>, <<"healthz">>}, k \in Rooms}

RemoteAddr == "192.0.2.7:40000"
UserAgent(r) ==
    IF "User-Agent" \in DOMAIN Header(r) THEN Header(r)["User-Agent"][1] ELSE ""
URLString(r) == [path |-> r.path, query |-> r.query]

(***************************************************************************)
(* State.                                                                  *)
(***************************************************************************)
VARIABLES
    env,       \* the process environment: [SENTRY_DSN |-> ...]
    phase,     \* "new", "listening", "exited": where Server.Start is
    client,    \* TRUE when sentry.Init bound a client to the global hub
    hubTags,   \* the tags of the global hub's scope
    flushes,   \* the calls of logger.Flush: the timeout of each, in seconds
    startLog,  \* what Server.Start itself captured and logged
    SlowRequestThresholdMs, \* the package variable of that name, in ms
    conn       \* per connection: the request in flight and all it produced

vars == <<env, phase, client, hubTags, flushes, startLog, SlowRequestThresholdMs, conn>>

Conns == {"c1"}

\* http.go 29: the value the variable is declared with
DefaultSlowRequestThresholdMs == 5

NoPanic == [active |-> FALSE]
Panicking(v) == [active |-> TRUE, value |-> v]

Idle ==
    [pc |-> "idle", r |-> Request("GET", <<"">>, <<>>, <<>>, NoBody), next |-> Router,
     handler |-> "", hubScope |-> {}, rw |-> [statusCode |-> 0, size |-> 0], w |-> <<>>,
     requestError |-> <<>>, panic |-> NoPanic, escaped |-> NoPanic,
     captures |-> <<>>, logs |-> <<>>, txn |-> [status |-> "", finished |-> 0, sent |-> FALSE],
     elapsed |-> 0, room |-> Unlimited, taken |-> 0, wrote |-> <<>>,
     returned |-> <<>>, acks |-> <<>>]

Init ==
    /\ env \in {[SENTRY_DSN |-> d] : d \in {"", "https://key@sentry.example/1"}}
    /\ phase = "new"
    /\ client = FALSE
    /\ hubTags = {}
    /\ flushes = <<>>
    /\ startLog = <<>>
    /\ SlowRequestThresholdMs = DefaultSlowRequestThresholdMs
    /\ conn = [c \in Conns |-> Idle]

(***************************************************************************)
(* logger.LogError (http.go 302-331), called with the global hub: st is    *)
(* the running request's record, extended with the global scope's tags.    *)
(***************************************************************************)
Capture(by, level, tags, context, exception, message, sent) ==
    [by |-> by, level |-> level, tags |-> tags, context |-> context,
     exception |-> exception, message |-> message, sent |-> sent]

Printf(text) == [kind |-> "printf", text |-> text]

LogError(st, op) ==
    LET ev == Capture("LogError", "error",
                      st.global \cup {<<"source", "application">>,
                                      <<"error_message", op.message>>} \cup op.tags,
                      IF op.extra = NilMap THEN <<>> ELSE [extra |-> op.extra],
                      <<op.err>>, "", client)
    IN  IF client
        THEN [st EXCEPT !.captures = Append(@, ev),
                        !.logs = Append(@, Printf("SENTRY: Alert sent to monitoring system")),
                        !.global = @ \cup {<<"alert_sent", "true">>}]
        ELSE [st EXCEPT !.captures = Append(@, ev)]

\* http.go 334-350: the line in the local log, and CaptureMessage at level
\* warning on the global hub; the event id is not looked at
LogWarning(st, op) ==
    LET ev == Capture("LogWarning", "warning", st.global \cup op.tags,
                      IF op.extra = NilMap THEN <<>> ELSE [extra |-> op.extra],
                      <<>>, op.message, client)
    IN  [st EXCEPT !.logs = Append(@, Printf("WARNING: " \o op.message)),
                   !.captures = Append(@, ev)]

\* http.go 353-356 (LogPerformance, LogMetric, LogDatabaseQuery and
\* LogAPICall, 359-384, are alike): a line in the local log and nothing else
LogInfo(st, op) ==
    [st EXCEPT !.logs = Append(@, Printf("INFO: " \o op.message))]

(***************************************************************************)
(* responseWriter (http.go 391-409) in front of the real http.ResponseWriter, *)
(* whose calls are recorded in w in the order they arrive.                 *)
(***************************************************************************)
\* what the real writer reports for a Write of b when the connection takes
\* room more bytes: the count written, and an error when it is short
UnderlyingWrite(room, b) ==
    LET n == IF room.limited /\ room.left < Len(b) THEN room.left ELSE Len(b) IN
    [n |-> n, err |-> IF n < Len(b) THEN "write: broken pipe" ELSE ""]

\* variants of the two methods: a status kept but not passed on, a status
\* passed on but not kept, a size counted from the bytes asked for
rwWriteHeaderNotForwarded(st, op) == [st EXCEPT !.rw.statusCode = op.code]
rwWriteHeaderNotCaptured(st, op) == [st EXCEPT !.w = Append(@, op)]
rwWriteRequested(st, op) ==
    LET res == UnderlyingWrite(IF st.room.limited THEN Room(st.room.left - st.taken)
                               ELSE st.room, op.bytes) IN
    [st EXCEPT !.rw.size = @ + Len(op.bytes),
               !.w = Append(@, op),
               !.taken = @ + res.n,
               !.wrote = Append(@, res),
               !.returned = Append(@, res)]

rwWriteHeader(st, op) ==
    [st EXCEPT !.rw.statusCode = op.code, !.w = Append(@, op)]

\* the room left once taken bytes have gone out
Left(room, taken) == IF room.limited THEN Room(room.left - taken) ELSE room

\* wrote: what the real writer reported; returned: what the handler was told
rwWrite(st, op) ==
    LET res == UnderlyingWrite(Left(st.room, st.taken), op.bytes) IN
    [st EXCEPT !.rw.size = @ + res.n,
               !.w = Append(@, op),
               !.taken = @ + res.n,
               !.wrote = Append(@, res),
               !.returned = Append(@, res)]

\* one call of the wrapped handler
Call(st, op) ==
    CASE op.op = "WriteHeader" -> rwWriteHeader(st, op)
      [] op.op = "Write" -> rwWrite(st, op)
      [] op.op = "Header.Set" -> [st EXCEPT !.w = Append(@, op)]
      [] op.op = "LogError" -> LogError(st, op)
      [] op.op = "LogWarning" -> LogWarning(st, op)
      [] op.op = "LogInfo" -> LogInfo(st, op)
      [] op.op = "panic" -> [st EXCEPT !.panic = Panicking(op.value)]

\* the calls the wrapped handler makes for request r
Calls(next, r) == IF next.kind = "router" THEN router(r) ELSE next.ops

\* next.ServeHTTP(rw, r): the calls in order, up to a panic
RECURSIVE Run(_, _)
Run(st, ops) ==
    IF ops = <<>> \/ st.panic.active THEN st
    ELSE Run(Call(st, Head(ops)), Tail(ops))

\* the request's record with the global scope's tags at hand, and back
WithGlobal(st, tags) ==
    [f \in DOMAIN st \cup {"global"} |-> IF f = "global" THEN tags ELSE st[f]]
WithoutGlobal(st) == [f \in DOMAIN st \ {"global"} |-> st[f]]

(***************************************************************************)
(* Server.Start (server.go 106-127)                                        *)
(***************************************************************************)
\* a client bound whatever the environment says
InitSentryAlways == TRUE

\* InitSentryFromEnv: no DSN, no client
InitSentryFromEnv == env.SENTRY_DSN # ""

Start ==
    /\ phase = "new"
    /\ client' = InitSentryFromEnv
    /\ startLog' = Append(startLog, Printf("Starting server"))
    /\ phase' = "listening"
    /\ UNCHANGED <<env, SlowRequestThresholdMs, hubTags, flushes, conn>>

\* server.go 114: logger.Flush(10 * time.Second)
FlushTimeout == 10

\* http.ListenAndServe returns its error; LogError, then the deferred Flush
ListenAndServeFails ==
    /\ phase = "listening"
    /\ LET st == LogError([captures |-> <<>>, logs |-> startLog, global |-> hubTags],
                          CallLogError("listen tcp: address already in use",
                                       "Server failed to start",
                                       {<<"host", "0.0.0.0">>, <<"port", "8081">>}, NilMap))
       IN  /\ startLog' = st.logs \o st.captures
           /\ hubTags' = st.global
    /\ flushes' = Append(flushes, FlushTimeout)
    /\ phase' = "exited"
    /\ conn' = [c \in DOMAIN conn |-> Idle]   \* Start returns, main returns, the process ends
    /\ UNCHANGED <<env, SlowRequestThresholdMs, client>>

\* server.go 122: Start sits in http.ListenAndServe and main installs no
\* signal handler, so a SIGTERM or SIGINT (a container stop, Ctrl-C) ends
\* the process there and then: deferred calls do not run
Terminated ==
    /\ phase = "listening"
    /\ phase' = "exited"
    /\ conn' = [c \in DOMAIN conn |-> Idle]
    /\ UNCHANGED <<env, SlowRequestThresholdMs, client, hubTags, flushes, startLog>>

(***************************************************************************)
(* LogHTTPRequest (http.go 144-287), one action per stretch of the         *)
(* middleware between two points where control changes hands.              *)
(***************************************************************************)
Elapsed == {1, 7}   \* milliseconds a request may take

\* http.go 150-175: hub from the context (sentryhttp's clone of the global
\* hub), transaction, responseWriter with statusCode 200
\* the locals of a request that has just entered the middleware
Entered(x, tags) ==
    [Idle EXCEPT !.pc = "started", !.r = x.r, !.next = x.next, !.room = x.room,
                 !.hubScope = tags,
                 !.rw = [statusCode |-> StatusOK, size |-> 0]]

\* a request that enters with the responseWriter of another one in flight
BeginFromShared(c, exchanges) ==
    /\ phase = "listening"
    /\ conn[c].pc = "idle"
    /\ \E x \in exchanges :
         conn' = [conn EXCEPT ![c] =
                    IF \E d \in DOMAIN conn : conn[d].pc # "idle"
                    THEN [Entered(x, hubTags) EXCEPT
                            !.rw = conn[CHOOSE d \in DOMAIN conn : conn[d].pc # "idle"].rw]
                    ELSE Entered(x, hubTags)]
    /\ UNCHANGED <<env, SlowRequestThresholdMs, phase, client, hubTags, flushes, startLog>>

BeginFrom(c, exchanges) ==
    /\ phase = "listening"
    /\ conn[c].pc = "idle"
    /\ \E x \in exchanges : conn' = [conn EXCEPT ![c] = Entered(x, hubTags)]
    /\ UNCHANGED <<env, SlowRequestThresholdMs, phase, client, hubTags, flushes, startLog>>

Begin(c) == BeginFrom(c, Exchanges)

\* http.go 210: next.ServeHTTP(rw, r)
ServeHTTP(c) ==
    /\ phase = "listening"
    /\ conn[c].pc = "started"
    /\ LET cur == conn[c]
           st == Run(WithGlobal(cur, hubTags), Calls(cur.next, cur.r))
       IN  /\ conn' = [conn EXCEPT ![c] =
                        [WithoutGlobal(st) EXCEPT
                            !.handler = IF cur.next.kind = "router"
                                        THEN findHandler(cur.r) ELSE "foreign",
                            !.pc = IF st.panic.active THEN "panicking" ELSE "returned"]]
           /\ hubTags' = st.global
    /\ UNCHANGED <<env, SlowRequestThresholdMs, phase, client, flushes, startLog>>

\* sentry.HTTPtoSpanStatus
HTTPtoSpanStatus(code) ==
    CASE code = 404 -> "not_found"
      [] code >= 500 -> "internal_error"
      [] OTHER -> "unknown"

\* http.go 121-141
FormatHTTPLog(entry) ==
    [kind |-> "access", remoteAddr |-> entry.RemoteAddr, method |-> entry.Method,
     path |-> entry.Path, status |-> entry.StatusCode, size |-> entry.ResponseSize,
     userAgent |-> entry.UserAgent, seconds |-> entry.ResponseTime,
     errorStr |-> IF entry.Error # <<>> THEN <<" error=">> \o entry.Error ELSE <<>>]

\* http.go 236-242: hub is never nil here (the request's hub, or CurrentHub),
\* so a request without a panic error counts as already reported
alertNeverSent(requestError) == FALSE
alertAlreadySent(requestError) == requestError = <<>>

\* http.go 212-285: the handler returned
Complete(c) ==
    /\ phase = "listening"
    /\ conn[c].pc = "returned"
    /\ \E ms \in Elapsed :
         LET cur == conn[c]
             entry == [RemoteAddr |-> RemoteAddr, Method |-> cur.r.method,
                       Path |-> cur.r.path, StatusCode |-> cur.rw.statusCode,
                       ResponseSize |-> cur.rw.size, ResponseTime |-> ms,
                       UserAgent |-> UserAgent(cur.r), Error |-> cur.requestError]
             report == /\ cur.rw.statusCode >= StatusInternalServerError
                       /\ ~alertAlreadySent(cur.requestError)
             ev == Capture("LogHTTPRequest.server_error", "error",
                           cur.hubScope \cup {<<"issue_type", "server_error">>,
                                              <<"source", "http_handler">>},
                           [request |-> [method |-> cur.r.method, url |-> URLString(cur.r),
                                         status_code |-> cur.rw.statusCode,
                                         response_time_ms |-> ms,
                                         response_size |-> cur.rw.size]],
                           cur.requestError,
                           IF cur.requestError = <<>> THEN "Server Error" ELSE "", client)
         IN  conn' = [conn EXCEPT ![c] =
                [cur EXCEPT
                   !.pc = "logged",
                   !.elapsed = ms,
                   !.txn.status = IF cur.rw.statusCode >= 400
                                  THEN HTTPtoSpanStatus(cur.rw.statusCode) ELSE @,
                   !.captures = IF report THEN Append(@, ev) ELSE @,
                   !.logs = (IF report /\ client
                             THEN Append(@, Printf("SENTRY: Server Error captured"))
                             ELSE @) \o <<FormatHTTPLog(entry)>>]]
    /\ UNCHANGED <<env, SlowRequestThresholdMs, phase, client, hubTags, flushes, startLog>>

\* a recover that does not raise the panic again
swallow(cur, rec) == [cur EXCEPT !.panic = NoPanic]

\* http.go 205: panic(rec)
repanic(cur, rec) == [cur EXCEPT !.panic = Panicking(rec)]

\* http.go 178-207: the deferred recover, the handler panicked with
\* cur.panic.value; sent tells whether the hub has a client
deferredRecover(cur, sent) ==
    LET rec == cur.panic.value
        requestError == IF rec.kind = "error" THEN rec.text
                        ELSE <<"panic: ">> \o rec.text
        ev == Capture("LogHTTPRequest.recover", "error",
                      cur.hubScope \cup {<<"panic", "true">>},
                      [request |-> [method |-> cur.r.method, url |-> URLString(cur.r),
                                    user_agent |-> UserAgent(cur.r),
                                    remote_ip |-> RemoteAddr]],
                      requestError, "", sent)
    IN  repanic([cur EXCEPT
                   !.pc = "repanicked",
                   !.requestError = requestError,
                   !.captures = Append(@, ev),
                   !.logs = IF sent THEN Append(@, Printf("SENTRY: Panic captured"))
                            ELSE @,
                   !.rw.statusCode = StatusInternalServerError],
                rec)

Recover(c) ==
    /\ phase = "listening"
    /\ conn[c].pc = "panicking"
    /\ conn' = [conn EXCEPT ![c] = deferredRecover(conn[c], client)]
    /\ UNCHANGED <<env, SlowRequestThresholdMs, phase, client, hubTags, flushes, startLog>>

\* a transaction that is finished a second time
finishTwice(cur, sent) ==
    [cur EXCEPT !.pc = "finished", !.txn.finished = @ + 2, !.txn.sent = sent]

\* transaction.Finish(): sentry.Init has EnableTracing and a traces sample
\* rate of 1.0 unless the environment says otherwise (http.go 45-46, 81-86),
\* so with a client the finished transaction goes to the sink
finishTransaction(cur, sent) ==
    [cur EXCEPT !.pc = "finished", !.txn.finished = @ + 1, !.txn.sent = sent]

\* http.go 164: the deferred transaction.Finish()
Finish(c) ==
    /\ phase = "listening"
    /\ conn[c].pc \in {"logged", "repanicked"}
    /\ conn' = [conn EXCEPT ![c] = finishTransaction(conn[c], client)]
    /\ UNCHANGED <<env, SlowRequestThresholdMs, phase, client, hubTags, flushes, startLog>>

\* http.go 146-150: back in the sentryhttp handler (Repanic: true), which
\* captures a panic passing through and raises it again
SentryHandler(c) ==
    /\ phase = "listening"
    /\ conn[c].pc = "finished"
    /\ LET cur == conn[c]
           ev == Capture("sentryhttp", "fatal", cur.hubScope, <<>>,
                         cur.panic.value.text, "", client)
       IN  conn' = [conn EXCEPT ![c] =
              IF cur.panic.active
              THEN [cur EXCEPT !.pc = "done", !.captures = Append(@, ev),
                               !.escaped = cur.panic]
              ELSE [cur EXCEPT !.pc = "done"]]
    /\ UNCHANGED <<env, SlowRequestThresholdMs, phase, client, hubTags, flushes, startLog>>

\* http.go 40-57: sentry.Init is given no Transport, so the client queues a
\* captured event and its worker delivers it later, or fails to, or has not
\* got to it yet; acks holds the outcomes so far, in the order of the queue
Deliveries == {"delivered", "failed"}
Queued(captures) == SelectSeq(captures, LAMBDA ev : ev.sent)

TransportSurfacing(c) ==
    /\ phase = "listening"
    /\ Len(conn[c].acks) < Len(Queued(conn[c].captures))
    /\ \E o \in Deliveries :
         conn' = [conn EXCEPT ![c].acks = Append(@, o),
                              ![c].w = IF o = "failed" THEN Append(@, Write(<<X(o)>>))
                                       ELSE @]
    /\ UNCHANGED <<env, SlowRequestThresholdMs, phase, client, hubTags, flushes, startLog>>

Transport(c) ==
    /\ phase = "listening"
    /\ Len(conn[c].acks) < Len(Queued(conn[c].captures))
    /\ \E o \in Deliveries : conn' = [conn EXCEPT ![c].acks = Append(@, o)]
    /\ UNCHANGED <<env, SlowRequestThresholdMs, phase, client, hubTags, flushes, startLog>>

\* server.go 122: the server is done with the request; its ResponseCapture,
\* log entry and reflected document are dropped
Close(c) ==
    /\ phase = "listening"
    /\ conn[c].pc = "done"
    /\ conn' = [conn EXCEPT ![c] = Idle]
    /\ UNCHANGED <<env, SlowRequestThresholdMs, phase, client, hubTags, flushes, startLog>>

Next ==
    \/ Start
    \/ ListenAndServeFails
    \/ Terminated
    \/ \E c \in Conns : Begin(c)
    \/ \E c \in Conns : ServeHTTP(c)
    \/ \E c \in Conns : Complete(c)
    \/ \E c \in Conns : Recover(c)
    \/ \E c \in Conns : Finish(c)
    \/ \E c \in Conns : SentryHandler(c)
    \/ \E c \in Conns : Close(c)
    \/ \E c \in Conns : Transport(c)

Spec == Init /\ [][Next]_vars

(***************************************************************************)
(* Two requests in flight at once (net/http serves each connection in a    *)
(* goroutine of its own), over a few exchanges: a reflection, a malformed  *)
(* body, a foreign handler on a closing connection, a panic.  The calls of *)
(* a handler on its own responseWriter touch nothing shared; LogError is   *)
(* its one step on the global hub, so a handler runs as one step.          *)
(***************************************************************************)
ConcConns == {"c1", "c2"}

ConcExchanges ==
    {[r |-> Request("GET", <<"x">>, <<Pair("a", "1")>>, <<>>, NoBody), next |-> Router,
      room |-> Unlimited],
     [r |-> Request("POST", <<"x">>, <<>>, <<>>, Body(BadJSON)), next |-> Router,
      room |-> Unlimited],
     [r |-> Request("GET", <<"x">>, <<>>, <<>>, Body(<<>>)),
      next |-> Foreign(<<WriteHeader(404), Write(<<X("h"), X("i")>>)>>), room |-> Room(1)],
     [r |-> Request("GET", <<"x">>, <<>>, <<>>, Body(<<>>)),
      next |-> Foreign(<<Panic([kind |-> "string", text |-> <<"oops">>])>>),
      room |-> Unlimited]}

InitConc ==
    /\ env \in {[SENTRY_DSN |-> d] : d \in {"", "https://key@sentry.example/1"}}
    /\ phase = "new"
    /\ client = FALSE
    /\ hubTags = {}
    /\ flushes = <<>>
    /\ startLog = <<>>
    /\ SlowRequestThresholdMs = DefaultSlowRequestThresholdMs
    /\ conn = [c \in ConcConns |-> Idle]

NextConc ==
    \/ Start
    \/ ListenAndServeFails
    \/ Terminated
    \/ \E c \in ConcConns : BeginFrom(c, ConcExchanges)
    \/ \E c \in ConcConns : ServeHTTP(c)
    \/ \E c \in ConcConns : Complete(c)
    \/ \E c \in ConcConns : Recover(c)
    \/ \E c \in ConcConns : Finish(c)
    \/ \E c \in ConcConns : SentryHandler(c)
    \/ \E c \in ConcConns : Close(c)
    \/ \E c \in ConcConns : Transport(c)

SpecConc == InitConc /\ [][NextConc]_vars

(***************************************************************************)
(* The server with the slow request threshold changed while it runs.       *)
(***************************************************************************)
MaxThresholdCalls == 1
Thresholds == {3, 10}
ThresholdSet == Printf("Slow request threshold set")

\* http.go 33-36
SetSlowRequestThreshold(thresholdMs) ==
    /\ Len(SelectSeq(startLog, LAMBDA l : l = ThresholdSet)) < MaxThresholdCalls
    /\ SlowRequestThresholdMs' = thresholdMs
    /\ startLog' = Append(startLog, ThresholdSet)
    /\ UNCHANGED <<env, phase, client, hubTags, flushes, conn>>

NextSlow ==
    \/ Start
    \/ ListenAndServeFails
    \/ Terminated
    \/ \E thresholdMs \in Thresholds : SetSlowRequestThreshold(thresholdMs)
    \/ \E c \in Conns : BeginFrom(c, ConcExchanges)
    \/ \E c \in Conns : ServeHTTP(c)
    \/ \E c \in Conns : Complete(c)
    \/ \E c \in Conns : Recover(c)
    \/ \E c \in Conns : Finish(c)
    \/ \E c \in Conns : SentryHandler(c)
    \/ \E c \in Conns : Close(c)
    \/ \E c \in Conns : Transport(c)

SpecSlow == Init /\ [][NextSlow]_vars

(***************************************************************************)
(* What the client is sent, read off the calls that reached the real       *)
(* http.ResponseWriter: the first WriteHeader decides the status (200 when *)
(* none precedes the first Write), the headers are those set before it,    *)
(* the body is the bytes written, in order.                                *)
(***************************************************************************)
Commits(op) == op.op \in {"WriteHeader", "Write"}
Committed(w) == \E i \in 1..Len(w) : Commits(w[i])
CommitIndex(w) == CHOOSE i \in 1..Len(w) : Commits(w[i]) /\ \A j \in 1..(i - 1) : ~Commits(w[j])

wStatus(w) ==
    IF Committed(w) /\ w[CommitIndex(w)].op = "WriteHeader" THEN w[CommitIndex(w)].code
    ELSE StatusOK

RECURSIVE wBody(_)
wBody(w) ==
    IF w = <<>> THEN <<>>
    ELSE (IF Head(w).op = "Write" THEN Head(w).bytes ELSE <<>>) \o wBody(Tail(w))

\* the value of header key as sent, "" when it is not set
wHeader(w, key) ==
    LET last == IF Committed(w) THEN CommitIndex(w) - 1 ELSE Len(w)
        sets == {i \in 1..last : w[i].op = "Header.Set" /\ w[i].key = key}
    IN  IF sets = {} THEN ""
        ELSE w[CHOOSE i \in sets : \A j \in sets : j <= i].value

\* the handler of connection c has returned
Served(c) == conn[c].pc \in {"returned", "logged", "finished", "done"}
\* ... and it was the Reflector, reached through the router
Reflected(c) ==
    Served(c) /\ conn[c].next.kind = "router" /\ conn[c].handler = "HandleRequest"
\* the JSON document of the response
Document(c) == Unmarshal(wBody(conn[c].w))
EmptyBody(r) == r.body.nil \/ (r.body.readErr = "" /\ r.body.bytes = <<>>)

(***************************************************************************)
(* C1: a request with an empty (zero bytes) or absent body is answered 200 *)
(* by the Reflector and the "body" member of the response document is the  *)
(* empty object: present, not null.                                        *)
(***************************************************************************)
C1_EmptyBodyIsEmptyObject ==
    \A c \in Conns :
        Reflected(c) /\ EmptyBody(conn[c].r) =>
            LET doc == Document(c) IN
            /\ wStatus(conn[c].w) = StatusOK
            /\ doc.err = ""
            /\ doc.v.k = "map"
            /\ "body" \in DOMAIN doc.v.m
            /\ doc.v.m["body"] = EmptyMap

C1_Witness ==
    \E c \in Conns :
        /\ Reflected(c) /\ conn[c].pc = "done"
        /\ conn[c].r.body = NoBody
        /\ Document(c).v.m["body"] = EmptyMap

(***************************************************************************)
(* C2: a request whose body is a syntactically valid JSON value is         *)
(* answered 200 by the Reflector, and the "body" member of the response    *)
(* document, parsed, equals the parsed request body.                       *)
(***************************************************************************)
ValidJSONBody(r) ==
    ~r.body.nil /\ r.body.readErr = "" /\ r.body.bytes # <<>>
        /\ checkValid(r.body.bytes) = ""

C2_ValidJSONRoundTrips ==
    \A c \in Conns :
        Reflected(c) /\ ValidJSONBody(conn[c].r) =>
            /\ wStatus(conn[c].w) = StatusOK
            /\ Document(c).err = ""
            /\ Document(c).v.k = "map"
            /\ "body" \in DOMAIN Document(c).v.m
            /\ Document(c).v.m["body"] = value(conn[c].r.body.bytes, 1).v

(***************************************************************************)
(* C3: a request whose body cannot be read, or is non-empty and not valid  *)
(* JSON, is answered 500 with the text of the read or parse error as a     *)
(* plain-text line, and nothing of the reflected document is written.      *)
(***************************************************************************)
UnreadableBody(r) == ~r.body.nil /\ r.body.readErr # ""
InvalidJSONBody(r) ==
    ~r.body.nil /\ r.body.readErr = "" /\ r.body.bytes # <<>>
        /\ checkValid(r.body.bytes) # ""
ErrorTextOf(r) ==
    IF r.body.readErr # "" THEN r.body.readErr ELSE checkValid(r.body.bytes)

C3_BadBodyIs500PlainText ==
    \A c \in Conns :
        Reflected(c) /\ (UnreadableBody(conn[c].r) \/ InvalidJSONBody(conn[c].r)) =>
            /\ wStatus(conn[c].w) = StatusInternalServerError
            /\ ErrorTextOf(conn[c].r) # ""
            /\ wBody(conn[c].w) = <<X(ErrorTextOf(conn[c].r)), W("\n")>>
            /\ wHeader(conn[c].w, "Content-Type") = "text/plain; charset=utf-8"
            /\ \A i \in 1..Len(conn[c].w) :
                 /\ conn[c].w[i].op = "WriteHeader"
                      => conn[c].w[i].code = StatusInternalServerError
                 /\ conn[c].w[i].op = "Write"
                      => \A j \in 1..Len(conn[c].w[i].bytes) :
                           conn[c].w[i].bytes[j].t \in {"text", "ws"}

C3_Witness ==
    \E c \in Conns :
        /\ Reflected(c) /\ conn[c].pc = "done"
        /\ conn[c].r.body = Body(BadJSON)
        /\ wStatus(conn[c].w) = StatusInternalServerError
        /\ wBody(conn[c].w) = <<X(ErrChar), W("\n")>>

(***************************************************************************)
(* C4: in the response document, under "headers" and under "queries"       *)
(* alike, a name supplied once has the bare string of its value and a name *)
(* supplied N > 1 times has the list of its N values in the order          *)
(* received.                                                               *)
(***************************************************************************)
Supplied(pairs, name) ==
    LET sel == SelectSeq(pairs, LAMBDA p : p.ok /\ p.key = name) IN
    [i \in 1..Len(sel) |-> sel[i].val]

Collapsed(member, pairs) ==
    /\ member.k = "map"
    /\ \A name \in {pairs[i].key : i \in 1..Len(pairs)} :
         LET vals == Supplied(pairs, name) IN
         /\ Len(vals) = 1 =>
              name \in DOMAIN member.m /\ member.m[name] = GoString(vals[1])
         /\ Len(vals) > 1 =>
              /\ name \in DOMAIN member.m
              /\ member.m[name].k = "slice"
              /\ Len(member.m[name].e) = Len(vals)
              /\ \A i \in 1..Len(vals) : member.m[name].e[i] = GoString(vals[i])

C4_CollapsingRule ==
    \A c \in Conns :
        Reflected(c) /\ wStatus(conn[c].w) = StatusOK =>
            LET doc == Document(c) IN
            /\ doc.err = ""
            /\ Collapsed(doc.v.m["headers"], conn[c].r.header)
            /\ Collapsed(doc.v.m["queries"], conn[c].r.query)

\* GET /x?a=1&a=2&b=3
C4_Witness ==
    \E c \in Conns :
        /\ Reflected(c) /\ conn[c].pc = "done"
        /\ conn[c].r.query = <<Pair("a", "1"), Pair("a", "2"), Pair("b", "3")>>
        /\ Document(c).v.m["queries"] =
             GoMap([k \in {"a", "b"} |->
                     IF k = "a" THEN GoSlice(<<GoString("1"), GoString("2")>>)
                     ELSE GoString("3")])

(***************************************************************************)
(* C5: a 200 response of the Reflector is a JSON object with exactly the   *)
(* keys body, headers, queries and params, and params is the empty object. *)
(***************************************************************************)
C5_FourKeys ==
    \A c \in Conns :
        Reflected(c) /\ wStatus(conn[c].w) = StatusOK =>
            LET doc == Document(c) IN
            /\ doc.err = ""
            /\ doc.v.k = "map"
            /\ DOMAIN doc.v.m = {"body", "headers", "queries", "params"}
            /\ doc.v.m["params"] = EmptyMap

C5_Witness ==
    \E c \in Conns :
        /\ Reflected(c) /\ conn[c].pc = "done"
        /\ wStatus(conn[c].w) = StatusOK
        /\ conn[c].r.body.bytes # <<>>
        /\ conn[c].r.query # <<>>
        /\ DOMAIN Document(c).v.m = {"body", "headers", "queries", "params"}

(***************************************************************************)
(* C6: a request with any method to any path other than /healthz reaches   *)
(* the Reflector and is answered either 200 with Content-Type              *)
(* application/json and the four-key document, or 500 with a plain-text    *)
(* error line; method and path do not matter.                              *)
(***************************************************************************)
C6_CatchAll ==
    \A c \in Conns :
        Served(c) /\ conn[c].next.kind = "router" /\ conn[c].r.path # <<"healthz">> =>
            /\ conn[c].handler = "HandleRequest"
            /\ \/ /\ wStatus(conn[c].w) = StatusOK
                  /\ wHeader(conn[c].w, "Content-Type") = "application/json"
                  /\ Document(c).err = ""
                  /\ DOMAIN Document(c).v.m = {"body", "headers", "queries", "params"}
               \/ /\ wStatus(conn[c].w) = StatusInternalServerError
                  /\ wHeader(conn[c].w, "Content-Type") = "text/plain; charset=utf-8"

(***************************************************************************)
(* C7: a request to /healthz gets 200 and the plain body OK whatever its   *)
(* headers, body and query are (a malformed JSON body included); the       *)
(* Reflector takes no part and no JSON is written.                         *)
(***************************************************************************)
C7_Healthz ==
    \A c \in Conns :
        Served(c) /\ conn[c].next.kind = "router" /\ conn[c].r.path = <<"healthz">> =>
            /\ conn[c].handler = "Healthz"
            /\ wStatus(conn[c].w) = StatusOK
            /\ wBody(conn[c].w) = <<X("OK")>>
            /\ wHeader(conn[c].w, "Content-Type") # "application/json"
            /\ conn[c].captures = <<>>

C7_Witness ==
    \E c \in Conns :
        /\ conn[c].pc = "done" /\ conn[c].next.kind = "router"
        /\ conn[c].r.path = <<"healthz">>
        /\ conn[c].r.body = Body(BadJSON)
        /\ conn[c].r.query # <<>>
        /\ wBody(conn[c].w) = <<X("OK")>>

(***************************************************************************)
(* C8: on a successful reflection Content-Type: application/json is set    *)
(* before the status is written, status 200 is written exactly once, and   *)
(* the JSON bytes are written only after the status.                       *)
(***************************************************************************)
Indices(w, kind) == {i \in 1..Len(w) : w[i].op = kind}
Reflectable(r) ==
    EmptyBody(r)
        \/ (~r.body.nil /\ r.body.readErr = "" /\ Unmarshal(r.body.bytes).err = "")

C8_HeaderStatusBodyOrder ==
    \A c \in Conns :
        Reflected(c) /\ Reflectable(conn[c].r) =>
            LET w == conn[c].w IN
            /\ Cardinality(Indices(w, "WriteHeader")) = 1
            /\ \A i \in Indices(w, "WriteHeader") :
                 /\ w[i].code = StatusOK
                 /\ \E h \in Indices(w, "Header.Set") :
                      /\ h < i
                      /\ w[h].key = "Content-Type"
                      /\ w[h].value = "application/json"
                 /\ \A b \in Indices(w, "Write") : i < b
            /\ Indices(w, "Write") # {}

C8_Witness ==
    \E c \in Conns :
        /\ Reflected(c) /\ conn[c].pc = "done"
        /\ conn[c].r.body.bytes # <<>>
        /\ Len(conn[c].w) = 3
        /\ conn[c].w[1] = SetHeader("Content-Type", "application/json")
        /\ conn[c].w[2] = WriteHeader(StatusOK)
        /\ conn[c].w[3].op = "Write"

(***************************************************************************)
(* C9: when the wrapped handler panics, the middleware recovers the value, *)
(* makes an error of it (an error as it is, anything else as "panic: ..."),*)
(* sets the captured status to 500, captures the error on the hub with the *)
(* request's method, URL, user agent and remote address, and raises the    *)
(* same value again: the panic leaves the middleware.                      *)
(***************************************************************************)
HandlerPanics(c) ==
    conn[c].next.kind = "foreign"
        /\ \E i \in 1..Len(conn[c].next.ops) : conn[c].next.ops[i].op = "panic"
PanicValue(c) ==
    conn[c].next.ops[CHOOSE i \in 1..Len(conn[c].next.ops) :
                        conn[c].next.ops[i].op = "panic"].value

C9_PanicReportedAndReraised ==
    \A c \in Conns :
        HandlerPanics(c) /\ conn[c].pc \in {"repanicked", "finished", "done"} =>
            LET v == PanicValue(c)
                e == conn[c].requestError
            IN  /\ v.kind = "error" => e = v.text
                /\ v.kind # "error" => e = <<"panic: ">> \o v.text
                /\ conn[c].rw.statusCode = StatusInternalServerError
                /\ \E i \in 1..Len(conn[c].captures) :
                     LET ev == conn[c].captures[i] IN
                     /\ ev.by = "LogHTTPRequest.recover"
                     /\ ev.level = "error"
                     /\ ev.exception = e
                     /\ ev.sent = client
                     /\ ev.context.request =
                          [method |-> conn[c].r.method, url |-> URLString(conn[c].r),
                           user_agent |-> UserAgent(conn[c].r), remote_ip |-> RemoteAddr]
                /\ conn[c].panic = Panicking(v)
                /\ conn[c].pc = "done" => conn[c].escaped = Panicking(v)

C9_Witness ==
    \E c \in Conns :
        /\ HandlerPanics(c) /\ conn[c].pc = "done"
        /\ PanicValue(c).kind = "string"
        /\ client
        /\ conn[c].requestError = <<"panic: ", "oops">>
        /\ conn[c].escaped = Panicking(PanicValue(c))

(***************************************************************************)
(* C10: every request leaves exactly one access log line, on the normal    *)
(* path and on the panic path; the line of a request whose handler         *)
(* panicked has status 500 and the clause error="panic: ...".              *)
(***************************************************************************)
AccessLines(c) == SelectSeq(conn[c].logs, LAMBDA l : l.kind = "access")

C10_OneLogLinePerRequest ==
    \A c \in Conns :
        conn[c].pc = "done" =>
            /\ Len(AccessLines(c)) = 1
            /\ HandlerPanics(c) =>
                 /\ AccessLines(c)[1].status = StatusInternalServerError
                 /\ AccessLines(c)[1].errorStr # <<>>

(***************************************************************************)
(* C11: whatever handler is wrapped, a request that ends with a captured   *)
(* status of 500 or more has an error-level event of the middleware        *)
(* captured on its hub, tagged issue_type=server_error, with the method,   *)
(* URL, status, time and response size as context, carrying the captured   *)
(* error when there is one and the message "Server Error" otherwise.       *)
(***************************************************************************)
ServerErrorReport(c, ev) ==
    /\ ev.by = "LogHTTPRequest.server_error"
    /\ ev.level = "error"
    /\ <<"issue_type", "server_error">> \in ev.tags
    /\ ev.context.request.method = conn[c].r.method
    /\ ev.context.request.status_code = conn[c].rw.statusCode
    /\ ev.context.request.response_size = conn[c].rw.size
    /\ IF conn[c].requestError # <<>> THEN ev.exception = conn[c].requestError
       ELSE ev.message = "Server Error"

C11_ServerErrorsReported ==
    \A c \in Conns :
        conn[c].pc = "done" /\ conn[c].rw.statusCode >= StatusInternalServerError =>
            \E i \in 1..Len(conn[c].captures) : ServerErrorReport(c, conn[c].captures[i])

(***************************************************************************)
(* C12: with a client bound to the hub, a request whose body is non-empty  *)
(* and not valid JSON has, when it is over, exactly one event captured for *)
(* the sink: the one of the handler's LogError, at level error, with the   *)
(* raw body as its "extra" context; the middleware adds none for the 500.  *)
(***************************************************************************)
C12_OneReportForBadJSON ==
    \A c \in Conns :
        Reflected(c) /\ InvalidJSONBody(conn[c].r) /\ client =>
            LET q == Queued(conn[c].captures) IN
            /\ Len(q) = 1
            /\ q[1].by = "LogError"
            /\ q[1].level = "error"
            /\ q[1].context = [extra |-> [body |-> conn[c].r.body.bytes]]
            /\ conn[c].rw.statusCode = StatusInternalServerError

C12_Witness ==
    \E c \in Conns :
        /\ Reflected(c) /\ conn[c].pc = "done" /\ client
        /\ conn[c].r.body = Body(BadJSON)
        /\ Len(Queued(conn[c].captures)) = 1
        /\ Queued(conn[c].captures)[1].context.extra.body = BadJSON
        /\ Len(AccessLines(c)) = 1

(***************************************************************************)
(* What a handler's calls amount to, read off the calls alone: the calls   *)
(* made before a panic, those of them that go to the response writer, the  *)
(* status last written (200 when none was), and the bytes the connection   *)
(* took of the writes.                                                     *)
(***************************************************************************)
RECURSIVE UpToPanic(_)
UpToPanic(ops) ==
    IF ops = <<>> \/ Head(ops).op = "panic" THEN <<>>
    ELSE <<Head(ops)>> \o UpToPanic(Tail(ops))

ToWriter(ops) ==
    SelectSeq(UpToPanic(ops), LAMBDA op : op.op \in {"Header.Set", "WriteHeader", "Write"})

LastStatus(calls) ==
    IF Indices(calls, "WriteHeader") = {} THEN StatusOK
    ELSE calls[CHOOSE i \in Indices(calls, "WriteHeader") :
                 \A j \in Indices(calls, "WriteHeader") : j <= i].code

RECURSIVE Taken(_, _)
Taken(calls, room) ==
    IF calls = <<>> THEN 0
    ELSE IF Head(calls).op # "Write" THEN Taken(Tail(calls), room)
    ELSE LET n == UnderlyingWrite(room, Head(calls).bytes).n IN
         n + Taken(Tail(calls), Left(room, n))

\* the handler of connection c is over, by a return or by a panic
HandlerOver(c) == conn[c].pc \notin {"idle", "started"}
\* the middleware has run to its end after the handler returned
LoggedNormally(c) == conn[c].pc \in {"logged", "finished", "done"} /\ ~conn[c].panic.active
\* the calls of the wrapped handler of connection c that reach the writer
WriterCalls(c) == ToWriter(Calls(conn[c].next, conn[c].r))
SentryLines(logs) ==
    SelectSeq(logs, LAMBDA l : l.kind = "printf"
                               /\ l.text \in {"SENTRY: Alert sent to monitoring system",
                                               "SENTRY: Panic captured",
                                               "SENTRY: Server Error captured"})

(***************************************************************************)
(* C13: without SENTRY_DSN the server still starts, no event is queued for *)
(* the sink and nothing is said of one in the log; and, with or without    *)
(* the DSN, what reaches the response writer and the access log line are   *)
(* the same, a function of the request, the handler, the connection and    *)
(* the elapsed time only.                                                  *)
(***************************************************************************)
C13_NoDSNSameResponse ==
    /\ env.SENTRY_DSN = "" =>
         /\ ~client
         /\ phase # "new" => Head(startLog) = Printf("Starting server")
         /\ \A i \in 1..Len(startLog) : startLog[i] \in {Printf("Starting server")}
                                          \/ ("sent" \in DOMAIN startLog[i] /\ ~startLog[i].sent)
         /\ \A c \in Conns :
              /\ Queued(conn[c].captures) = <<>>
              /\ conn[c].acks = <<>>
              /\ SentryLines(conn[c].logs) = <<>>
    /\ \A c \in Conns :
         LET calls == WriterCalls(c) IN
         /\ HandlerOver(c) => conn[c].w = calls
         /\ LoggedNormally(c) =>
              AccessLines(c) =
                <<FormatHTTPLog([RemoteAddr |-> RemoteAddr, Method |-> conn[c].r.method,
                                 Path |-> conn[c].r.path,
                                 StatusCode |-> LastStatus(calls),
                                 ResponseSize |-> Taken(calls, conn[c].room),
                                 ResponseTime |-> conn[c].elapsed,
                                 UserAgent |-> UserAgent(conn[c].r), Error |-> <<>>])>>
         /\ conn[c].pc = "done" /\ conn[c].panic.active => AccessLines(c) = <<>>

\* the 500 path of the Reflector, where LogError is called, without a DSN
C13_Witness ==
    \E c \in Conns :
        /\ env.SENTRY_DSN = "" /\ phase = "listening"
        /\ Reflected(c) /\ conn[c].pc = "done"
        /\ conn[c].r.body = Body(BadJSON)
        /\ Len(conn[c].captures) = 1
        /\ ~conn[c].captures[1].sent
        /\ wStatus(conn[c].w) = StatusInternalServerError
        /\ Len(AccessLines(c)) = 1

(***************************************************************************)
(* C14: what the sink does with a captured event - deliver it, fail, or    *)
(* not get to it at all - never shows in the response: at every moment     *)
(* after the handler the status and the body are those of the handler's    *)
(* own calls, and on the Reflector's 500 paths, where LogError comes       *)
(* before http.Error, the error response is written all the same.          *)
(***************************************************************************)
C14_SinkNeverSurfaces ==
    \A c \in Conns :
        HandlerOver(c) =>
            LET calls == WriterCalls(c) IN
            /\ wStatus(conn[c].w) = wStatus(calls)
            /\ wBody(conn[c].w) = wBody(calls)
            /\ Len(conn[c].acks) <= Len(Queued(conn[c].captures))
            /\ Reflected(c) /\ conn[c].captures # <<>> =>
                 /\ conn[c].captures[1].by = "LogError"
                 /\ wStatus(conn[c].w) = StatusInternalServerError
                 /\ wBody(conn[c].w) = <<X(reflectBody(conn[c].r).err), W("\n")>>

\* the report of a malformed body was queued and its delivery failed
C14_Witness ==
    \E c \in Conns :
        /\ client /\ Reflected(c) /\ conn[c].pc = "done"
        /\ conn[c].r.body = Body(BadJSON)
        /\ conn[c].acks = <<"failed">>
        /\ wStatus(conn[c].w) = StatusInternalServerError
        /\ wBody(conn[c].w) = <<X(ErrChar), W("\n")>>

(***************************************************************************)
(* C15: the responseWriter passes on every WriteHeader and Write of the    *)
(* handler, unchanged and in order, so the real writer sees the calls it   *)
(* would see without the wrapper, and each Write returns to the handler    *)
(* the count and the error the real writer reported for it.                *)
(***************************************************************************)
\* the results of the writes of calls made on the real writer directly
RECURSIVE Direct(_, _)
Direct(calls, room) ==
    IF calls = <<>> THEN <<>>
    ELSE IF Head(calls).op # "Write" THEN Direct(Tail(calls), room)
    ELSE LET res == UnderlyingWrite(room, Head(calls).bytes) IN
         <<res>> \o Direct(Tail(calls), Left(room, res.n))

C15_WrapperForwards ==
    \A c \in Conns :
        HandlerOver(c) =>
            LET calls == WriterCalls(c) IN
            /\ conn[c].w = calls
            /\ conn[c].wrote = Direct(calls, conn[c].room)
            /\ conn[c].returned = conn[c].wrote
            /\ Len(conn[c].returned) = Cardinality(Indices(calls, "Write"))

\* a status, then a write the connection takes only half of
C15_Witness ==
    \E c \in Conns :
        /\ conn[c].pc = "done"
        /\ conn[c].next = Foreign(<<WriteHeader(404), Write(<<X("h"), X("i")>>)>>)
        /\ conn[c].room = Room(1)
        /\ conn[c].w = conn[c].next.ops
        /\ conn[c].returned = <<[n |-> 1, err |-> "write: broken pipe"]>>

(***************************************************************************)
(* C16: the captured statusCode is 200 when the request enters, after any  *)
(* number of the handler's calls it is the code of the latest WriteHeader  *)
(* among them (200 when there is none), it is 500 once a panic has been    *)
(* recovered, and the status of the access log line is the captured value  *)
(* the handler returned with.                                              *)
(***************************************************************************)
\* the handler of connection c stopped after its first k calls
AfterCalls(c, k) ==
    Run(WithGlobal(conn[c], hubTags), SubSeq(Calls(conn[c].next, conn[c].r), 1, k))

C16_CapturedStatus ==
    \A c \in Conns :
        /\ conn[c].pc = "started" =>
             /\ conn[c].rw.statusCode = StatusOK
             /\ \A k \in 0..Len(UpToPanic(Calls(conn[c].next, conn[c].r))) :
                  AfterCalls(c, k).rw.statusCode =
                      LastStatus(ToWriter(SubSeq(Calls(conn[c].next, conn[c].r), 1, k)))
        /\ conn[c].pc \in {"returned", "panicking"} =>
             conn[c].rw.statusCode = LastStatus(WriterCalls(c))
        /\ HandlerOver(c) /\ conn[c].pc # "panicking" /\ conn[c].panic.active =>
             conn[c].rw.statusCode = StatusInternalServerError
        /\ LoggedNormally(c) =>
             /\ conn[c].rw.statusCode = LastStatus(WriterCalls(c))
             /\ Len(AccessLines(c)) = 1
             /\ AccessLines(c)[1].status = conn[c].rw.statusCode

\* two explicit statuses: the later one is the captured one
C16_Witness ==
    \E c \in Conns :
        /\ conn[c].pc = "done"
        /\ conn[c].next = Foreign(<<WriteHeader(StatusInternalServerError), WriteHeader(404)>>)
        /\ conn[c].rw.statusCode = 404
        /\ AccessLines(c)[1].status = 404

(***************************************************************************)
(* C17: the captured size is 0 when the request enters, after any number   *)
(* of the handler's calls it is the sum of the counts the real writer      *)
(* reported for the writes among them - not of the lengths asked for -, it *)
(* never goes down from one call to the next, and it is the size in the    *)
(* access log line.                                                        *)
(***************************************************************************)
RECURSIVE Reported(_)
Reported(results) ==
    IF results = <<>> THEN 0 ELSE Head(results).n + Reported(Tail(results))

C17_CapturedSize ==
    \A c \in Conns :
        /\ conn[c].pc = "started" =>
             /\ conn[c].rw.size = 0
             /\ \A k \in 1..Len(UpToPanic(Calls(conn[c].next, conn[c].r))) :
                  /\ AfterCalls(c, k).rw.size = Reported(AfterCalls(c, k).wrote)
                  /\ AfterCalls(c, k).rw.size >= AfterCalls(c, k - 1).rw.size
        /\ HandlerOver(c) =>
             /\ conn[c].rw.size = Reported(conn[c].wrote)
             /\ conn[c].rw.size = Taken(conn[c].w, conn[c].room)
        /\ LoggedNormally(c) =>
             /\ Len(AccessLines(c)) = 1
             /\ AccessLines(c)[1].size = conn[c].rw.size

\* two writes of two bytes each on a connection that takes one byte
C17_Witness ==
    \E c \in Conns :
        /\ conn[c].pc = "done"
        /\ conn[c].next = Foreign(<<Write(<<X("h"), X("i")>>), Write(<<X("h"), X("i")>>)>>)
        /\ conn[c].room = Room(1)
        /\ conn[c].wrote = <<[n |-> 1, err |-> "write: broken pipe"],
                             [n |-> 0, err |-> "write: broken pipe"]>>
        /\ conn[c].rw.size = 1
        /\ AccessLines(c)[1].size = 1

(***************************************************************************)
(* C18: what the Reflector answers is a function of the request's body     *)
(* bytes, header lines and query only: the calls that reach the writer are *)
(* those it makes for a request with the same three and a fixed method and *)
(* path, whatever the time taken, the tags left on the hub by earlier      *)
(* requests and the order in which Go walks its maps; so two requests that *)
(* agree on the three get the same status and the same bytes.              *)
(***************************************************************************)
SameContent(r) == Request("GET", <<"x">>, r.query, r.header, r.body)

C18_Deterministic ==
    \A c \in Conns :
        Reflected(c) =>
            LET calls == ToWriter(HandleRequest(SameContent(conn[c].r))) IN
            /\ conn[c].w = calls
            /\ wStatus(conn[c].w) = wStatus(calls)
            /\ wBody(conn[c].w) = wBody(calls)
            /\ wStatus(conn[c].w) = StatusOK =>
                 wBody(conn[c].w) = Encode(reflected(SameContent(conn[c].r)))

\* another method and path, after an earlier request left its tag on the hub
C18_Witness ==
    \E c \in Conns :
        /\ Reflected(c) /\ conn[c].pc = "done"
        /\ conn[c].r.method = "CONNECT" /\ conn[c].r.path = <<"", "x">>
        /\ conn[c].r.query = <<Pair("a", "1")>>
        /\ conn[c].r.body = Body(<<S("a")>>)
        /\ hubTags # {}
        /\ conn[c].elapsed = 7
        /\ wStatus(conn[c].w) = StatusOK

(***************************************************************************)
(* C19: with two requests in flight in any interleaving, and after any     *)
(* earlier requests (failed and panicked ones included), each request has  *)
(* the calls on the writer, the captured status and size, and the status   *)
(* and size of its log line that it has when it is handled alone in a      *)
(* fresh process.                                                          *)
(***************************************************************************)
\* the request of connection c when its handler has run with no other
\* request before or beside it
Alone(c) ==
    Run(WithGlobal(Entered([r |-> conn[c].r, next |-> conn[c].next, room |-> conn[c].room],
                           {}), {}),
        Calls(conn[c].next, conn[c].r))

C19_RequestsIsolated ==
    \A c \in DOMAIN conn :
        /\ HandlerOver(c) =>
             /\ conn[c].w = Alone(c).w
             /\ wStatus(conn[c].w) = wStatus(Alone(c).w)
             /\ wBody(conn[c].w) = wBody(Alone(c).w)
             /\ conn[c].rw.size = Alone(c).rw.size
        /\ conn[c].pc \in {"returned", "panicking"} => conn[c].rw = Alone(c).rw
        /\ LoggedNormally(c) =>
             /\ Len(AccessLines(c)) = 1
             /\ AccessLines(c)[1].status = Alone(c).rw.statusCode
             /\ AccessLines(c)[1].size = Alone(c).rw.size

\* a reflection that began after a failure, logged while a malformed body
\* is being answered on the other connection
C19_Witness ==
    /\ DOMAIN conn = ConcConns
    /\ conn["c1"].pc = "returned"
    /\ conn["c1"].r.body = Body(BadJSON)
    /\ wStatus(conn["c1"].w) = StatusInternalServerError
    /\ conn["c2"].pc = "logged"
    /\ conn["c2"].next = Router
    /\ conn["c2"].hubScope # {}
    /\ wStatus(conn["c2"].w) = StatusOK
    /\ AccessLines("c2")[1].status = StatusOK

(***************************************************************************)
(* C20: once the server listens, no step of handling a request changes the *)
(* process-wide state: the client bound to the global hub and the tags of  *)
(* the global hub's scope stay as initialization left them, also when the  *)
(* request takes an error path that calls LogError.                        *)
(***************************************************************************)
C20_RequestsLeaveGlobalsAlone ==
    [][phase = "listening" /\ phase' = "listening" =>
          /\ hubTags' = hubTags
          /\ client' = client
          /\ env' = env]_vars

(***************************************************************************)
(* C21: the sink is set up once, before any request is taken (the client   *)
(* is what InitSentryFromEnv made of the environment from then on), and    *)
(* when the process has ended logger.Flush has been called exactly once,   *)
(* with a timeout of 10 seconds, after everything Start reported, the      *)
(* error of a failed listen included; before that it is not called.        *)
(***************************************************************************)
StartCaptures == SelectSeq(startLog, LAMBDA l : "by" \in DOMAIN l)

C21_InitOnceFlushOnce ==
    /\ phase = "new" => ~client /\ flushes = <<>>
    /\ phase # "new" => client = InitSentryFromEnv
    /\ \A c \in DOMAIN conn : conn[c].pc # "idle" => phase = "listening"
    /\ phase = "listening" => flushes = <<>> /\ StartCaptures = <<>>
    /\ phase = "exited" => flushes = <<FlushTimeout>>

(***************************************************************************)
(* C22: a request that ends with a captured status from 200 to 499 has     *)
(* sent nothing to the sink: no event of any level is queued for it and no *)
(* transaction (performance data) of it goes out.                          *)
(***************************************************************************)
C22_NothingSentBelow500 ==
    \A c \in Conns :
        /\ conn[c].pc = "done"
        /\ conn[c].rw.statusCode >= StatusOK
        /\ conn[c].rw.statusCode < StatusInternalServerError
        => /\ Queued(conn[c].captures) = <<>>
           /\ ~conn[c].txn.sent

(***************************************************************************)
(* C23: a call of LogWarning leaves its line in the local log and hands    *)
(* nothing to the sink, and so do the other helpers but LogError: every    *)
(* event queued while a handler runs is one of LogError.                   *)
(***************************************************************************)
HandlerCalled(c, helper) ==
    \E i \in 1..Len(UpToPanic(Calls(conn[c].next, conn[c].r))) :
        Calls(conn[c].next, conn[c].r)[i].op = helper

C23_OnlyLogErrorSends ==
    \A c \in Conns :
        conn[c].pc = "returned" =>
            /\ HandlerCalled(c, "LogWarning") =>
                 \E i \in 1..Len(conn[c].logs) :
                    conn[c].logs[i] = Printf("WARNING: High memory usage detected")
            /\ \A i \in 1..Len(conn[c].captures) :
                 conn[c].captures[i].sent => conn[c].captures[i].by = "LogError"

(***************************************************************************)
(* C24: the body is parsed as JSON when the request says its Content-Type  *)
(* is application/json, and a request that names another Content-Type is   *)
(* not turned away for a body that is not JSON: the Reflector answers it   *)
(* 200.                                                                    *)
(***************************************************************************)
ContentType(r) ==
    IF "Content-Type" \in DOMAIN Header(r) THEN Header(r)["Content-Type"][1] ELSE ""

C24_ParsingOnlyForJSON ==
    \A c \in Conns :
        /\ Reflected(c)
        /\ conn[c].room = Unlimited
        /\ ~conn[c].r.body.nil /\ conn[c].r.body.readErr = ""
        /\ conn[c].r.body.bytes # <<>>
        => LET u == Unmarshal(conn[c].r.body.bytes) IN
           /\ ContentType(conn[c].r) = "application/json" =>
                IF u.err = ""
                THEN /\ wStatus(conn[c].w) = StatusOK
                     /\ Document(c).v.m["body"] = u.v
                ELSE wStatus(conn[c].w) = StatusInternalServerError
           /\ ContentType(conn[c].r) \notin {"", "application/json"} =>
                wStatus(conn[c].w) = StatusOK

(***************************************************************************)
(* C25: a request goes START, TIMING, HANDLER_RUNNING, COMPLETED, LOGGED,   *)
(* REPORTED, END: before the inner handler is called nothing is logged and *)
(* nothing is handed to the sink for the request, and whenever an event of *)
(* the request has been handed to the sink its access log line has been    *)
(* written already.                                                        *)
(***************************************************************************)
C25_LoggedBeforeReported ==
    \A c \in Conns :
        /\ conn[c].pc \in {"idle", "started"} =>
             /\ conn[c].logs = <<>>
             /\ conn[c].captures = <<>>
             /\ ~conn[c].txn.sent
        /\ Queued(conn[c].captures) # <<>> => AccessLines(c) # <<>>

(***************************************************************************)
(* C26: a request that took longer than SlowRequestThresholdMs - 5 ms      *)
(* unless SetSlowRequestThreshold changed it - is reported to the sink as  *)
(* an issue once the middleware is through with it.                        *)
(***************************************************************************)
C26_SlowRequestsReported ==
    \A c \in Conns :
        /\ client
        /\ LoggedNormally(c)
        /\ conn[c].elapsed > SlowRequestThresholdMs
        => Queued(conn[c].captures) # <<>>

(***************************************************************************)
(* C27: when a request ends without a panic the status in its access log   *)
(* line is the status the client was sent, whatever WriteHeader and Write  *)
(* calls the handler made and in whatever order.                           *)
(***************************************************************************)
C27_LoggedStatusIsSentStatus ==
    \A c \in Conns :
        LoggedNormally(c) =>
            /\ Len(AccessLines(c)) = 1
            /\ AccessLines(c)[1].status = wStatus(conn[c].w)

(***************************************************************************)
(* C28: a panic of the handler gives one error event at the sink for the   *)
(* request, not one from the middleware's recover and another from the     *)
(* sentryhttp handler the panic passes through next.                       *)
(***************************************************************************)
C28_OnePanicEvent ==
    \A c \in Conns :
        /\ client
        /\ conn[c].pc = "done"
        /\ conn[c].escaped.active
        => Len(Queued(conn[c].captures)) = 1

(***************************************************************************)
(* C29: the transaction of a request is finished once, on the normal path  *)
(* and on the panic path: not while the handler has yet to return or       *)
(* panic, on the panic path not before the recover has captured the panic  *)
(* and raised it again, and its status is set, from the status code the    *)
(* wrapper holds, only when that code is 400 or more.                      *)
(***************************************************************************)
C29_TransactionFinishedOnce ==
    \A c \in Conns :
        LET cur == conn[c] IN
        /\ cur.txn.finished = IF cur.pc \in {"finished", "done"} THEN 1 ELSE 0
        /\ cur.txn.finished > 0 /\ cur.panic.active =>
             /\ cur.requestError # <<>>
             /\ \E i \in 1..Len(cur.captures) : cur.captures[i].by = "LogHTTPRequest.recover"
             /\ cur.rw.statusCode = StatusInternalServerError
        /\ cur.txn.status # "" =>
             /\ cur.rw.statusCode >= 400
             /\ cur.txn.status = HTTPtoSpanStatus(cur.rw.statusCode)
        /\ LoggedNormally(c) /\ cur.rw.statusCode >= 400 =>
             cur.txn.status = HTTPtoSpanStatus(cur.rw.statusCode)

\* a panic went through the recover and out, and the transaction was
\* finished on the way
C29_Witness ==
    \E c \in Conns :
        /\ conn[c].pc = "done"
        /\ conn[c].escaped.active
        /\ conn[c].txn.finished = 1
        /\ conn[c].txn.status = ""
        /\ conn[c].rw.statusCode = StatusInternalServerError

====
